---- MODULE Spec2Model ----
(***************************************************************************)
(* Model of the ride-lifecycle producer and consumer of kafka-ride-sharing *)
(* (src/producer/main.go, src/events/types.go, src/consumer/main.go and    *)
(* InsertRideEvent of package rides_db).                                   *)
(*                                                                         *)
(* The specifications share the variables:                                  *)
(*   SpecFSM  exercises FSM.Apply as a pure function, from every one of    *)
(*            the six ride states and with every one of the five event     *)
(*            types;                                                       *)
(*   Spec     is the driver loop of main(): the select on the ticker and   *)
(*            on ctx.Done(), admission, the range over activeRides, and    *)
(*            the flush after the loop;                                    *)
(*   SpecCapacity is that loop next to its capacity of 100 rides;          *)
(*   SpecConsumer is the loop of src/consumer/main.go with the sink        *)
(*            InsertRideEvent of package rides_db;                         *)
(*   SpecCodec is json.Marshal of a RideEvent followed by UnmarshalJSON,   *)
(*            and UnmarshalJSON of envelopes written by others.            *)
(*                                                                         *)
(* Abstractions: uuid.NewString() is a fresh value, modelled by a counter  *)
(* (trip identifier 0 stands for the empty string, the zero value);        *)
(* the envelope's Timestamp and the driver and passenger identifiers are   *)
(* not modelled, the event ID only where events reach the sink; amounts    *)
(* are integer cents, distances hundredths of a km; json.Marshal of an     *)
(* event in the driver is an external call whose error result is drawn     *)
(* nondeterministically, as is the outcome of rand.Float64() < 0.1.        *)
(***************************************************************************)
EXTENDS Integers, Sequences, FiniteSets, TLC

(***************************************************************************)
(* Vocabulary: src/events/types.go                                         *)
(***************************************************************************)
EventRideRequested == "REQUESTED"
EventRideAccepted  == "ACCEPTED"
EventTripStarted   == "STARTED"
EventTripCompleted == "COMPLETED"
EventTripCancelled == "CANCELLED"

RideEventTypes ==
  { EventRideRequested, EventRideAccepted, EventTripStarted,
    EventTripCompleted, EventTripCancelled }

StateNew        == "NEW"
StateRequested  == "REQUESTED"
StateAccepted   == "ACCEPTED"
StateInProgress == "IN_PROGRESS"
StateCompleted  == "COMPLETED"
StateCancelled  == "CANCELLED"

RideStates ==
  { StateNew, StateRequested, StateAccepted, StateInProgress,
    StateCompleted, StateCancelled }

\* The two errors FSM.Apply builds with fmt.Errorf, and the nil error.
Nil                  == "nil"
UndefinedStateError  == "no transitions defined for state"
InvalidTransitionError == "event not valid from state"

\* Zero values of a Go string used as event type and as trip identifier.
NoType == ""
NoTrip == 0

(***************************************************************************)
(* Bounds of the model                                                     *)
(***************************************************************************)
MaxApplies == 4
MaxTicks   == 3
MaxMarshalFailures == 1
MaxReads   == 3

\* A table in which an accepted ride cannot start.
transitions_NoTripStarted ==
  (StateRequested :> (EventRideAccepted :> StateAccepted
                      @@ EventTripCancelled :> StateCancelled))
  @@ (StateAccepted :> (EventTripCancelled :> StateCancelled))
  @@ (StateInProgress :> (EventTripCancelled :> StateCancelled
                          @@ EventTripCompleted :> StateCompleted))

\* A table in which a cancelled ride can be requested again.
transitions_WithReopen ==
  (StateRequested :> (EventRideAccepted :> StateAccepted
                      @@ EventTripCancelled :> StateCancelled))
  @@ (StateAccepted :> (EventTripStarted :> StateInProgress
                        @@ EventTripCancelled :> StateCancelled))
  @@ (StateInProgress :> (EventTripCancelled :> StateCancelled
                          @@ EventTripCompleted :> StateCompleted))
  @@ (StateCancelled :> (EventRideRequested :> StateRequested))

(***************************************************************************)
(* FSM engine: src/producer/main.go:27-79                                  *)
(***************************************************************************)
\* The table as it stood before InProgress + TripCancelled was added.
transitions_NoInProgressCancel ==
  (StateRequested :> (EventRideAccepted :> StateAccepted
                      @@ EventTripCancelled :> StateCancelled))
  @@ (StateAccepted :> (EventTripStarted :> StateInProgress
                        @@ EventTripCancelled :> StateCancelled))
  @@ (StateInProgress :> (EventTripCompleted :> StateCompleted))

\* A table that registers the terminal states with empty rows.
transitions_TerminalRows ==
  (StateRequested :> (EventRideAccepted :> StateAccepted
                      @@ EventTripCancelled :> StateCancelled))
  @@ (StateAccepted :> (EventTripStarted :> StateInProgress
                        @@ EventTripCancelled :> StateCancelled))
  @@ (StateInProgress :> (EventTripCancelled :> StateCancelled
                          @@ EventTripCompleted :> StateCompleted))
  @@ (StateCompleted :> <<>>)
  @@ (StateCancelled :> <<>>)

transitions ==
  (StateRequested :> (EventRideAccepted :> StateAccepted
                      @@ EventTripCancelled :> StateCancelled))
  @@ (StateAccepted :> (EventTripStarted :> StateInProgress
                        @@ EventTripCancelled :> StateCancelled))
  @@ (StateInProgress :> (EventTripCancelled :> StateCancelled
                          @@ EventTripCompleted :> StateCompleted))

\* Apply that validates the event and leaves the state as it is.
Apply_KeepsState(f, event) ==
  IF f.State \notin DOMAIN transitions
  THEN [FSM |-> f, err |-> UndefinedStateError]
  ELSE IF event \notin DOMAIN transitions[f.State]
       THEN [FSM |-> f, err |-> InvalidTransitionError]
       ELSE [FSM |-> f, err |-> Nil]

\* Apply that writes the looked-up (or zero) state before testing ok.
Apply_AssignFirst(f, event) ==
  IF f.State \notin DOMAIN transitions
  THEN [FSM |-> f, err |-> UndefinedStateError]
  ELSE IF event \notin DOMAIN transitions[f.State]
       THEN [FSM |-> [State |-> ""], err |-> InvalidTransitionError]
       ELSE [FSM |-> [State |-> transitions[f.State][event]], err |-> Nil]

\* FSM.Apply: the FSM after the call and the error returned.
Apply(f, event) ==
  IF f.State \notin DOMAIN transitions
  THEN [FSM |-> f, err |-> UndefinedStateError]
  ELSE IF event \notin DOMAIN transitions[f.State]
       THEN [FSM |-> f, err |-> InvalidTransitionError]
       ELSE [FSM |-> [State |-> transitions[f.State][event]], err |-> Nil]

\* IsTerminal that knows Completed only.
IsTerminal_OnlyCompleted(f) == f.State = StateCompleted

IsTerminal(f) == f.State = StateCompleted \/ f.State = StateCancelled

\* IsCancelable that knows Requested only.
IsCancelable_OnlyRequested(f) == f.State = StateRequested

\* A cancelable test that follows the TripCancelled column of the table.
IsCancelable_WithInProgress(f) ==
  f.State = StateRequested \/ f.State = StateAccepted
    \/ f.State = StateInProgress

IsCancelable(f) == f.State = StateRequested \/ f.State = StateAccepted


(***************************************************************************)
(* State                                                                   *)
(***************************************************************************)
VARIABLES
  fsm,          \* SpecFSM: the FSM under test, a record with field State
  fsmTrace,     \* SpecFSM: one record per Apply call made on fsm
  activeRides,  \* main: map from trip identifier to the Ride it points to
  produced,     \* messages handed to producer.Produce, in call order
  pc,           \* main: "select", "range", "exited" or "flushed"
  visited,      \* keys the running range statement has already produced
  cancelled,    \* ctx has been cancelled by the signal goroutine
  ticks,        \* number of ticker.C values received since the initial state
  uuids,        \* number of trip identifiers drawn from uuid.NewString()
  tickRides,    \* history: keys of activeRides right after the last admission
  visits,       \* history: per key, iterations of the current range on it
  retired,      \* history: keys deleted from activeRides
  lastVisit,    \* history: what the last iteration of the range did
  marshalFailures, \* history: json.Marshal calls that failed since the
                   \* initial state
  store,        \* consumer: rows of table ride_events
  consumerPc,   \* consumer: "loop" or "exited"
  consumerCancelled, \* consumer: its ctx has been cancelled
  handled,      \* history: one record per iteration of the consumer loop
  original,     \* codec: the RideEvent given to json.Marshal
  wire,         \* codec: the bytes given to UnmarshalJSON
  decoded,      \* codec: the event and error UnmarshalJSON left
  codecPc       \* codec: "idle", "event", "wire" or "done"

vars ==
  << fsm, fsmTrace, activeRides, produced, pc, visited, cancelled, ticks,
     uuids, tickRides, visits, retired, lastVisit, marshalFailures,
     store, consumerPc, consumerCancelled, handled,
     original, wire, decoded, codecPc >>

fsmVars == << fsm, fsmTrace >>

consumerVars == << store, consumerPc, consumerCancelled, handled >>

codecVars == << original, wire, decoded, codecPc >>

\* The nil interface value of RideEvent.Payload.
NilPayload == [variant |-> Nil]

\* var event events.RideEvent: the zero value, before UnmarshalJSON fills it.
ZeroRideEvent ==
  [ID |-> "", TripID |-> NoTrip, Type |-> NoType, State |-> "",
   Payload |-> NilPayload]

\* Bytes that are not JSON.
NotJSON == [json |-> FALSE]

\* No event is being serialized or deserialized.
InitCodec ==
  /\ original = ZeroRideEvent
  /\ wire = NotJSON
  /\ decoded = [event |-> ZeroRideEvent, err |-> Nil]
  /\ codecPc = "idle"

InitConsumer ==
  /\ store = {}
  /\ consumerPc = "loop"
  /\ consumerCancelled = FALSE
  /\ handled = << >>

driverVars ==
  << activeRides, produced, pc, visited, cancelled, ticks, uuids,
     tickRides, visits, retired, lastVisit, marshalFailures >>

\* RideEvent{}: the zero value getNextEvent returns with an error or for a
\* state that has no next event.
EmptyEvent ==
  [TripID |-> NoTrip, Type |-> NoType, State |-> "", Payload |-> NilPayload]

NoVisit ==
  [TripID |-> NoTrip, before |-> "", after |-> "", event |-> EmptyEvent,
   err |-> Nil, published |-> FALSE, deleted |-> FALSE, roll |-> FALSE]

InitDriver ==
  /\ activeRides = << >>
  /\ produced = << >>
  /\ pc = "select"
  /\ visited = {}
  /\ cancelled = FALSE
  /\ ticks = 0
  /\ uuids = 0
  /\ tickRides = {}
  /\ visits = << >>
  /\ retired = {}
  /\ lastVisit = NoVisit
  /\ marshalFailures = 0

(***************************************************************************)
(* SpecFSM: Apply called on an FSM constructed in any of the six states    *)
(***************************************************************************)
InitFSM ==
  /\ fsm \in [State : RideStates]
  /\ fsmTrace = << >>
  /\ InitDriver
  /\ InitConsumer
  /\ InitCodec

\* One call f.Apply(event), recorded with the state before and after.
ApplyEvent ==
  /\ Len(fsmTrace) < MaxApplies
  /\ \E event \in RideEventTypes :
       LET r == Apply(fsm, event) IN
       /\ fsm' = r.FSM
       /\ fsmTrace' = Append(fsmTrace,
                        [from |-> fsm.State, event |-> event,
                         to |-> r.FSM.State, err |-> r.err])
  /\ UNCHANGED << driverVars, consumerVars, codecVars >>

NextFSM == ApplyEvent

SpecFSM == InitFSM /\ [][NextFSM]_vars


(***************************************************************************)
(* Driver: src/producer/main.go:95-198 (generateFare, getNextEvent)        *)
(***************************************************************************)
topic == "ride-events"

Capacity == 100

\* Amounts in cents, distances in hundredths of a kilometre.
BaseFare  == 250
PerKmRate == 100
MinDistance == 200
MaxDistance == 2500

\* Values math.Round(gofakeit.Float64Range(2.0, 25.0)*100)/100 is drawn from.
Distances == { MinDistance, MaxDistance }

\* A fare without the base fare.
generateFare_NoBase(distance) == (PerKmRate * distance + 50) \div 100

generateFare(distance) == BaseFare + (PerKmRate * distance + 50) \div 100

RideRequestedPayload == [variant |-> "RideRequestedPayload"]

RideAcceptedPayload == [variant |-> "RideAcceptedPayload"]

RideStartedPayload == [variant |-> "RideStartedPayload"]

RideCompletedPayload(distance) ==
  [variant |-> "RideCompletedPayload", DistanceKM |-> distance,
   FareUSD |-> generateFare(distance)]

RideCancelledPayload ==
  [variant |-> "RideCancelledPayload", CancelledBy |-> "passenger",
   Reason |-> "no_show"]

\* A progression that goes from Accepted straight to TripCompleted.
NextEventType_SkipStarted(state) ==
  CASE state = StateRequested  -> EventRideAccepted
    [] state = StateAccepted   -> EventTripCompleted
    [] state = StateInProgress -> EventTripCompleted
    [] OTHER                   -> NoType

\* The switch on ride.FSM.State of getNextEvent; NoType is its default case.
NextEventType(state) ==
  CASE state = StateRequested  -> EventRideAccepted
    [] state = StateAccepted   -> EventTripStarted
    [] state = StateInProgress -> EventTripCompleted
    [] OTHER                   -> NoType

\* The payload switch without the case for TripStarted.
PayloadFor_NoStartedCase(next, distance) ==
  CASE next = EventRideRequested -> RideRequestedPayload
    [] next = EventRideAccepted  -> RideAcceptedPayload
    [] next = EventTripCompleted -> RideCompletedPayload(distance)
    [] OTHER                     -> NilPayload

\* The switch on next of getNextEvent that builds the payload.
PayloadFor(next, distance) ==
  CASE next = EventRideRequested -> RideRequestedPayload
    [] next = EventRideAccepted  -> RideAcceptedPayload
    [] next = EventTripStarted   -> RideStartedPayload
    [] next = EventTripCompleted -> RideCompletedPayload(distance)
    [] OTHER                     -> NilPayload

\* getNextEvent that reads ride.FSM.State for the event before Apply.
getNextEvent_StaleState(ride, roll, distance) ==
  IF ~IsTerminal(ride.FSM) /\ roll /\ IsCancelable(ride.FSM)
  THEN LET a == Apply(ride.FSM, EventTripCancelled) IN
       IF a.err # Nil
       THEN [ride |-> ride, event |-> EmptyEvent, err |-> a.err]
       ELSE [ride |-> [ride EXCEPT !.FSM = a.FSM],
             event |-> [TripID |-> ride.TripID, Type |-> EventTripCancelled,
                        State |-> StateCancelled,
                        Payload |-> RideCancelledPayload],
             err |-> Nil]
  ELSE LET next == NextEventType(ride.FSM.State) IN
       IF next = NoType
       THEN [ride |-> ride, event |-> EmptyEvent, err |-> Nil]
       ELSE LET a == Apply(ride.FSM, next) IN
            IF a.err # Nil
            THEN [ride |-> ride, event |-> EmptyEvent, err |-> a.err]
            ELSE [ride |-> [ride EXCEPT !.FSM = a.FSM],
                  event |-> [TripID |-> ride.TripID, Type |-> next,
                             State |-> ride.FSM.State,
                             Payload |-> PayloadFor(next, distance)],
                  err |-> Nil]

\* getNextEvent whose cancellation branch does not return: the normal step
\* runs on the ride it has just cancelled.
getNextEvent_CancelFallsThrough(ride, roll, distance) ==
  LET c == IF ~IsTerminal(ride.FSM) /\ roll /\ IsCancelable(ride.FSM)
           THEN Apply(ride.FSM, EventTripCancelled).FSM
           ELSE ride.FSM
      next == NextEventType(c.State)
  IN IF next = NoType
     THEN [ride |-> [ride EXCEPT !.FSM = c], event |-> EmptyEvent, err |-> Nil]
     ELSE LET a == Apply(c, next) IN
          IF a.err # Nil
          THEN [ride |-> ride, event |-> EmptyEvent, err |-> a.err]
          ELSE [ride |-> [ride EXCEPT !.FSM = a.FSM],
                event |-> [TripID |-> ride.TripID, Type |-> next,
                           State |-> a.FSM.State,
                           Payload |-> PayloadFor(next, distance)],
                err |-> Nil]

\* getNextEvent: the ride after the call, the event and the error returned.
\* roll is the outcome of rand.Float64() < 0.1, distance the random distance.
getNextEvent(ride, roll, distance) ==
  IF ~IsTerminal(ride.FSM) /\ roll /\ IsCancelable(ride.FSM)
  THEN LET a == Apply(ride.FSM, EventTripCancelled) IN
       IF a.err # Nil
       THEN [ride |-> ride, event |-> EmptyEvent, err |-> a.err]
       ELSE [ride |-> [ride EXCEPT !.FSM = a.FSM],
             event |-> [TripID |-> ride.TripID, Type |-> EventTripCancelled,
                        State |-> StateCancelled,
                        Payload |-> RideCancelledPayload],
             err |-> Nil]
  ELSE LET next == NextEventType(ride.FSM.State) IN
       IF next = NoType
       THEN [ride |-> ride, event |-> EmptyEvent, err |-> Nil]
       ELSE LET a == Apply(ride.FSM, next) IN
            IF a.err # Nil
            THEN [ride |-> ride, event |-> EmptyEvent, err |-> a.err]
            ELSE [ride |-> [ride EXCEPT !.FSM = a.FSM],
                  event |-> [TripID |-> ride.TripID, Type |-> next,
                             State |-> a.FSM.State,
                             Payload |-> PayloadFor(next, distance)],
                  err |-> Nil]

(***************************************************************************)
(* Driver: src/producer/main.go:224-317 (main)                             *)
(***************************************************************************)
\* A trip identifier that repeats the first one drawn.
NewTripID_Reused(n) == 1

\* tripID := uuid.NewString(): the n-th identifier drawn is fresh.
NewTripID(n) == n

\* A ride constructed in the zero-like state New.
NewRide_New(tripID) == [TripID |-> tripID, FSM |-> [State |-> StateNew]]

\* ride := &Ride{TripID: tripID, ..., FSM: FSM{State: events.StateRequested}}
NewRide(tripID) == [TripID |-> tripID, FSM |-> [State |-> StateRequested]]

\* A range that produces keys it has produced before.
RangeNext_Replay(m, seen) == DOMAIN m

\* Keys the range over map m may produce next, seen being those produced.
RangeNext(m, seen) == DOMAIN m \ seen

\* The seed event built at admission (main.go:257-270).
SeedEvent(ride) ==
  [TripID |-> ride.TripID, Type |-> EventRideRequested,
   State |-> StateRequested, Payload |-> RideRequestedPayload]

\* The kafka.Message built for an event of a ride.
\* A message produced without a Key.
Message_NoKey(ride, evt) == [Topic |-> topic, Key |-> NoTrip, Value |-> evt]

Message(ride, evt) == [Topic |-> topic, Key |-> ride.TripID, Value |-> evt]

\* A guard that lets every event through.
IsEmptyEvent_Never(event) == FALSE

\* The guard `event.Type == "" || event.TripID == ""` of the range body.
IsEmptyEvent(event) == event.Type = NoType \/ event.TripID = NoTrip

\* delete(activeRides, tripID)
Delete(m, k) == [x \in DOMAIN m \ {k} |-> m[x]]

\* Results of json.Marshal: TRUE for a nil error.  The number of failed calls
\* of one run is bounded.
MarshalOutcomesAt(failures) ==
  IF failures < MaxMarshalFailures THEN BOOLEAN ELSE {TRUE}

MarshalOutcomes == MarshalOutcomesAt(marshalFailures)

\* A capacity test that admits a ride into a full working set.
HasRoom_OffByOne(m) == Cardinality(DOMAIN m) <= Capacity

\* len(activeRides) < 100
HasRoom(m) == Cardinality(DOMAIN m) < Capacity

\* case <-ticker.C, up to the range statement: admission of one ride and its
\* seed event.  A failed json.Marshal of the seed event runs `continue`,
\* which resumes the enclosing for, so the select is entered again.
Tick ==
  /\ pc = "select"
  /\ ticks < MaxTicks
  /\ ticks' = ticks + 1
  /\ visited' = {}
  /\ IF HasRoom(activeRides)
     THEN \E marshalOK \in MarshalOutcomes :
            LET tripID == NewTripID(uuids + 1)
                ride == NewRide(tripID)
                evt == SeedEvent(ride)
            IN /\ uuids' = uuids + 1
               /\ activeRides' =
                    [k \in DOMAIN activeRides \cup {tripID} |->
                       IF k = tripID THEN ride ELSE activeRides[k]]
               /\ IF marshalOK
                  THEN /\ produced' = Append(produced, Message(ride, evt))
                       /\ pc' = "range"
                       /\ UNCHANGED marshalFailures
                  ELSE /\ produced' = produced
                       /\ pc' = "select"
                       /\ marshalFailures' = marshalFailures + 1
     ELSE /\ pc' = "range"
          /\ UNCHANGED << uuids, activeRides, produced, marshalFailures >>
  /\ tickRides' = DOMAIN activeRides'
  /\ visits' = [k \in DOMAIN activeRides' |-> 0]
  /\ UNCHANGED << cancelled, retired, lastVisit,
                  fsmVars, consumerVars, codecVars >>

\* The part of the state of main that the body of the range reads and writes.
RangeState ==
  [activeRides |-> activeRides, produced |-> produced, visited |-> visited,
   visits |-> visits, retired |-> retired, lastVisit |-> lastVisit,
   marshalFailures |-> marshalFailures]

\* A range body without the IsTerminal check at its end.
VisitRide_KeepsTerminal(s, tripID, roll, distance, marshalOK) ==
  LET ride == s.activeRides[tripID]
      r == getNextEvent(ride, roll, distance)
      marshal == r.err = Nil /\ ~IsEmptyEvent(r.event)
      publish == marshal /\ marshalOK
      remove == r.err # Nil
  IN [activeRides |-> IF remove
                      THEN Delete(s.activeRides, tripID)
                      ELSE [s.activeRides EXCEPT ![tripID] = r.ride],
      produced |-> IF publish
                   THEN Append(s.produced, Message(r.ride, r.event))
                   ELSE s.produced,
      visited |-> s.visited \cup {tripID},
      visits |-> [s.visits EXCEPT ![tripID] = @ + 1],
      retired |-> IF remove THEN s.retired \cup {tripID} ELSE s.retired,
      lastVisit |-> [TripID |-> tripID, before |-> ride.FSM.State,
                     after |-> r.ride.FSM.State, event |-> r.event,
                     err |-> r.err, published |-> publish,
                     deleted |-> remove, roll |-> roll],
      marshalFailures |-> IF marshal /\ ~marshalOK
                          THEN s.marshalFailures + 1
                          ELSE s.marshalFailures]

\* The body of `for tripID, ride := range activeRides` run once, for key
\* tripID in range state s: getNextEvent, the error and empty-event guards,
\* json.Marshal, Produce and the deletion of a terminal ride.
VisitRide(s, tripID, roll, distance, marshalOK) ==
  LET ride == s.activeRides[tripID]
      r == getNextEvent(ride, roll, distance)
      marshal == r.err = Nil /\ ~IsEmptyEvent(r.event)
      publish == marshal /\ marshalOK
      remove == \/ r.err # Nil
                \/ publish /\ IsTerminal(r.ride.FSM)
  IN [activeRides |-> IF remove
                      THEN Delete(s.activeRides, tripID)
                      ELSE [s.activeRides EXCEPT ![tripID] = r.ride],
      produced |-> IF publish
                   THEN Append(s.produced, Message(r.ride, r.event))
                   ELSE s.produced,
      visited |-> s.visited \cup {tripID},
      visits |-> [s.visits EXCEPT ![tripID] = @ + 1],
      retired |-> IF remove THEN s.retired \cup {tripID} ELSE s.retired,
      lastVisit |-> [TripID |-> tripID, before |-> ride.FSM.State,
                     after |-> r.ride.FSM.State, event |-> r.event,
                     err |-> r.err, published |-> publish,
                     deleted |-> remove, roll |-> roll],
      marshalFailures |-> IF marshal /\ ~marshalOK
                          THEN s.marshalFailures + 1
                          ELSE s.marshalFailures]

\* One iteration of `for tripID, ride := range activeRides`.  The range
\* produces each key at most once, in an unspecified order, and never a key
\* that was deleted before it was reached.
Visit ==
  /\ pc = "range"
  /\ \E tripID \in RangeNext(activeRides, visited) :
     \E roll \in BOOLEAN, distance \in Distances, marshalOK \in MarshalOutcomes :
       LET n == VisitRide(RangeState, tripID, roll, distance, marshalOK)
       IN /\ activeRides' = n.activeRides
          /\ produced' = n.produced
          /\ visited' = n.visited
          /\ visits' = n.visits
          /\ retired' = n.retired
          /\ lastVisit' = n.lastVisit
          /\ marshalFailures' = n.marshalFailures
  /\ UNCHANGED << pc, cancelled, ticks, uuids, tickRides,
                  fsmVars, consumerVars, codecVars >>

\* The range statement has produced every key: back to the select.
EndRange ==
  /\ pc = "range"
  /\ RangeNext(activeRides, visited) = {}
  /\ pc' = "select"
  /\ visited' = {}
  /\ UNCHANGED << activeRides, produced, cancelled, ticks, uuids, tickRides,
                  visits, retired, lastVisit, marshalFailures,
                  fsmVars, consumerVars, codecVars >>

\* The signal goroutine receives SIGINT or SIGTERM and calls cancel().
Signal ==
  /\ ~cancelled
  /\ cancelled' = TRUE
  /\ UNCHANGED << activeRides, produced, pc, visited, ticks, uuids,
                  tickRides, visits, retired, lastVisit, marshalFailures,
                  fsmVars, consumerVars, codecVars >>

\* case <-ctx.Done(): break loop
Shutdown ==
  /\ pc = "select"
  /\ cancelled
  /\ pc' = "exited"
  /\ UNCHANGED << activeRides, produced, visited, cancelled, ticks, uuids,
                  tickRides, visits, retired, lastVisit, marshalFailures,
                  fsmVars, consumerVars, codecVars >>

\* producer.Flush(5000)
Flush ==
  /\ pc = "exited"
  /\ pc' = "flushed"
  /\ UNCHANGED << activeRides, produced, visited, cancelled, ticks, uuids,
                  tickRides, visits, retired, lastVisit, marshalFailures,
                  fsmVars, consumerVars, codecVars >>

Init ==
  /\ fsm = [State |-> StateRequested]
  /\ fsmTrace = << >>
  /\ InitDriver
  /\ InitConsumer
  /\ InitCodec

Next == Tick \/ Visit \/ EndRange \/ Signal \/ Shutdown \/ Flush

Spec == Init /\ [][Next]_vars


(***************************************************************************)
(* SpecCapacity: the driver loop next to its capacity of 100 rides.        *)
(*                                                                         *)
(* A ride whose TripCancelled event fails to marshal in the tick that      *)
(* admitted it stays in activeRides in state Cancelled for good.  The      *)
(* initial states are those main is in, at the select, after n ticks that  *)
(* each left their ride that way, n being 98, 99 or 100; ticks and         *)
(* marshalFailures count from there.  The range statement is one step      *)
(* here, its keys taken in ascending order, which is one of the orders the *)
(* range may choose: with about 100 keys the orders cannot be enumerated.  *)
(***************************************************************************)
\* The ride left in activeRides by a tick whose cancellation failed to marshal.
LeftCancelled(tripID) ==
  [TripID |-> tripID, FSM |-> [State |-> StateCancelled]]

InitCapacity ==
  /\ fsm = [State |-> StateRequested]
  /\ fsmTrace = << >>
  /\ \E n \in (Capacity - 2)..Capacity :
       /\ activeRides = [k \in 1..n |-> LeftCancelled(NewTripID(k))]
       /\ produced = [k \in 1..n |->
                        Message(NewRide(NewTripID(k)),
                                SeedEvent(NewRide(NewTripID(k))))]
       /\ uuids = n
       /\ tickRides = 1..n
       /\ visits = [k \in 1..n |-> 1]
       /\ lastVisit =
            VisitRide([activeRides |-> [k \in {n} |-> NewRide(NewTripID(n))],
                       produced |-> << >>, visited |-> {},
                       visits |-> [k \in {n} |-> 0], retired |-> {},
                       lastVisit |-> NoVisit, marshalFailures |-> 0],
                      n, TRUE, MinDistance, FALSE).lastVisit
  /\ pc = "select"
  /\ visited = {}
  /\ cancelled = FALSE
  /\ ticks = 0
  /\ retired = {}
  /\ marshalFailures = 0
  /\ InitConsumer
  /\ InitCodec

\* The range states one iteration for key k can end in, from range state s;
\* a key that is not in the map is not produced.
VisitOutcomes(s, k) ==
  IF k \in DOMAIN s.activeRides
  THEN { VisitRide(s, k, roll, distance, marshalOK) :
           roll \in BOOLEAN, distance \in Distances,
           marshalOK \in MarshalOutcomesAt(s.marshalFailures) }
  ELSE {s}

\* The range states the range statement can end in, from the states S it can
\* be in with the keys lo..hi still to produce, in ascending order.
RECURSIVE RangeResults(_, _, _)
RangeResults(S, lo, hi) ==
  IF lo > hi
  THEN S
  ELSE IF lo = hi
       THEN UNION { VisitOutcomes(s, lo) : s \in S }
       ELSE LET mid == (lo + hi) \div 2
                left == RangeResults(S, lo, mid)
            IN \* left is never empty; the test has it evaluated first.
               IF left = {} THEN {} ELSE RangeResults(left, mid + 1, hi)

\* The whole statement `for tripID, ride := range activeRides { ... }`.
RangeAll ==
  /\ pc = "range"
  /\ visited = {}
  /\ \E n \in RangeResults({RangeState}, 1, uuids) :
       /\ activeRides' = n.activeRides
       /\ produced' = n.produced
       /\ visits' = n.visits
       /\ retired' = n.retired
       /\ lastVisit' = n.lastVisit
       /\ marshalFailures' = n.marshalFailures
  /\ visited' = {}
  /\ pc' = "select"
  /\ UNCHANGED << cancelled, ticks, uuids, tickRides,
                  fsmVars, consumerVars, codecVars >>

NextCapacity == Tick \/ RangeAll \/ Signal \/ Shutdown \/ Flush

SpecCapacity == InitCapacity /\ [][NextCapacity]_vars

(***************************************************************************)
(* Event envelope: src/events/types.go:76-138                              *)
(*                                                                         *)
(* The bytes of a message are [json |-> FALSE] when they are not JSON, and *)
(* [json |-> TRUE, obj |-> o] when they are the JSON object o, a function  *)
(* from the member names of the struct tags to values.  A time.Time is the *)
(* instant it denotes and whether it carries a monotonic clock reading, as *)
(* a value of time.Now() does; the envelope's Timestamp is left out.       *)
(***************************************************************************)
\* time.Time{}: the zero time.
ZeroTime == [instant |-> 0, monotonic |-> FALSE]

\* Time.MarshalJSON: the RFC 3339 text of the instant; a monotonic clock
\* reading is not written.
MarshalTime(t) == t.instant

\* Time.UnmarshalJSON: the instant of the text, without monotonic reading.
UnmarshalTime(text) == [instant |-> text, monotonic |-> FALSE]

\* Time.Equal: the two values denote the same instant.
TimeEqual(a, b) == a.instant = b.instant
\* Member `name` of the JSON object or Go value o, `zero` when it has none.
Field(o, name, zero) == IF name \in DOMAIN o THEN o[name] ELSE zero

\* json.Marshal of a payload value: the members of its struct tags.
MarshalPayload(p) ==
  CASE p.variant = Nil -> [null |-> TRUE]
    [] p.variant = "RideRequestedPayload" ->
         [passenger |-> Field(p, "Passenger", ""),
          pickup_location |-> Field(p, "PickupLocation", ""),
          dropoff_location |-> Field(p, "DropoffLocation", "")]
    [] p.variant = "RideAcceptedPayload" ->
         [driver_id |-> Field(p, "DriverID", "")]
    [] p.variant = "RideStartedPayload" ->
         [start_time |-> MarshalTime(Field(p, "StartTime", ZeroTime))]
    [] p.variant = "RideCompletedPayload" ->
         [end_time |-> MarshalTime(Field(p, "EndTime", ZeroTime)),
          distance_km |-> Field(p, "DistanceKM", 0),
          fare_usd |-> Field(p, "FareUSD", 0)]
    [] p.variant = "RideCancelledPayload" ->
         IF Field(p, "Reason", "") = ""
         THEN [cancelled_by |-> Field(p, "CancelledBy", "")]
         ELSE [cancelled_by |-> Field(p, "CancelledBy", ""),
               reason |-> p.Reason]

\* json.Marshal of a RideEvent; a nil Payload is omitted (omitempty).
MarshalJSON(e) ==
  [json |-> TRUE,
   obj |-> IF e.Payload = NilPayload
           THEN [id |-> Field(e, "ID", ""), trip_id |-> e.TripID,
                 type |-> e.Type, state |-> e.State]
           ELSE [id |-> Field(e, "ID", ""), trip_id |-> e.TripID,
                 type |-> e.Type, state |-> e.State,
                 payload |-> MarshalPayload(e.Payload)]]

\* Decoding that looks for the member cancelledBy instead of cancelled_by.
UnmarshalPayload_WrongTag(variant, o) ==
  CASE variant = "RideRequestedPayload" ->
         [variant |-> variant,
          Passenger |-> Field(o, "passenger", ""),
          PickupLocation |-> Field(o, "pickup_location", ""),
          DropoffLocation |-> Field(o, "dropoff_location", "")]
    [] variant = "RideAcceptedPayload" ->
         [variant |-> variant, DriverID |-> Field(o, "driver_id", "")]
    [] variant = "RideStartedPayload" ->
         [variant |-> variant,
          StartTime |-> UnmarshalTime(Field(o, "start_time", 0))]
    [] variant = "RideCompletedPayload" ->
         [variant |-> variant,
          EndTime |-> UnmarshalTime(Field(o, "end_time", 0)),
          DistanceKM |-> Field(o, "distance_km", 0),
          FareUSD |-> Field(o, "fare_usd", 0)]
    [] variant = "RideCancelledPayload" ->
         [variant |-> variant,
          CancelledBy |-> Field(o, "cancelledBy", ""),
          Reason |-> Field(o, "reason", "")]

\* json.Unmarshal of a payload object into the struct of one variant.
UnmarshalPayload(variant, o) ==
  CASE variant = "RideRequestedPayload" ->
         [variant |-> variant,
          Passenger |-> Field(o, "passenger", ""),
          PickupLocation |-> Field(o, "pickup_location", ""),
          DropoffLocation |-> Field(o, "dropoff_location", "")]
    [] variant = "RideAcceptedPayload" ->
         [variant |-> variant, DriverID |-> Field(o, "driver_id", "")]
    [] variant = "RideStartedPayload" ->
         [variant |-> variant,
          StartTime |-> UnmarshalTime(Field(o, "start_time", 0))]
    [] variant = "RideCompletedPayload" ->
         [variant |-> variant,
          EndTime |-> UnmarshalTime(Field(o, "end_time", 0)),
          DistanceKM |-> Field(o, "distance_km", 0),
          FareUSD |-> Field(o, "fare_usd", 0)]
    [] variant = "RideCancelledPayload" ->
         [variant |-> variant,
          CancelledBy |-> Field(o, "cancelled_by", ""),
          Reason |-> Field(o, "reason", "")]

\* The switch on e.Type of UnmarshalJSON: the variant decoded for a type.
VariantOf(type) ==
  CASE type = EventRideRequested -> "RideRequestedPayload"
    [] type = EventRideAccepted  -> "RideAcceptedPayload"
    [] type = EventTripStarted   -> "RideStartedPayload"
    [] type = EventTripCompleted -> "RideCompletedPayload"
    [] type = EventTripCancelled -> "RideCancelledPayload"
    [] OTHER                     -> Nil

JSONError == "json: cannot unmarshal"

\* UnmarshalJSON whose default case returns an error.
UnmarshalJSON_UnknownTypeFails(data) ==
  IF ~data.json
  THEN [event |-> ZeroRideEvent, err |-> JSONError]
  ELSE LET o == data.obj
           e == [ID |-> Field(o, "id", ""),
                 TripID |-> Field(o, "trip_id", NoTrip),
                 Type |-> Field(o, "type", NoType),
                 State |-> Field(o, "state", ""),
                 Payload |-> NilPayload]
       IN IF VariantOf(e.Type) = Nil
          THEN [event |-> e, err |-> JSONError]
          ELSE IF "payload" \notin DOMAIN o
               THEN [event |-> e, err |-> JSONError]
               ELSE [event |-> [e EXCEPT !.Payload =
                                  UnmarshalPayload(VariantOf(e.Type), o.payload)],
                     err |-> Nil]

\* RideEvent.UnmarshalJSON: the event decoded and the error returned.  The
\* envelope is decoded first; for a known type the raw payload is decoded
\* into the variant of that type, which fails when there is no payload.
UnmarshalJSON(data) ==
  IF ~data.json
  THEN [event |-> ZeroRideEvent, err |-> JSONError]
  ELSE LET o == data.obj
           e == [ID |-> Field(o, "id", ""),
                 TripID |-> Field(o, "trip_id", NoTrip),
                 Type |-> Field(o, "type", NoType),
                 State |-> Field(o, "state", ""),
                 Payload |-> NilPayload]
       IN IF VariantOf(e.Type) = Nil
          THEN [event |-> e, err |-> Nil]
          ELSE IF "payload" \notin DOMAIN o
               THEN [event |-> e, err |-> JSONError]
               ELSE [event |-> [e EXCEPT !.Payload =
                                  UnmarshalPayload(VariantOf(e.Type), o.payload)],
                     err |-> Nil]

(***************************************************************************)
(* Sink: src/unnamed/part_001 (InsertRideEvent) and the table ride_events  *)
(* of src/consumer/main.go:89-98                                           *)
(***************************************************************************)
ExecError       == "exec failed"
UniqueViolation == "duplicate key value violates unique constraint"

\* The row of the VALUES clause.
Row(e) ==
  [id |-> e.ID, trip_id |-> e.TripID, event_type |-> e.Type,
   event_state |-> e.State,
   payload |-> MarshalPayload(e.Payload)]

\* Rows that conflict with row r on UNIQUE (trip_id, event_type).
SamePair(rows, r) ==
  { x \in rows : x.trip_id = r.trip_id /\ x.event_type = r.event_type }

\* A plain INSERT, without the ON CONFLICT clause.
InsertRideEvent_NoConflictClause(rows, e, dbUp) ==
  IF ~dbUp
  THEN [store |-> rows, err |-> ExecError]
  ELSE IF SamePair(rows, Row(e)) # {} \/ \E x \in rows : x.id = e.ID
       THEN [store |-> rows, err |-> UniqueViolation]
       ELSE [store |-> rows \cup {Row(e)}, err |-> Nil]

\* InsertRideEvent on table contents `rows`: INSERT ... ON CONFLICT (trip_id,
\* event_type) DO NOTHING.  dbUp is FALSE when ExecContext fails for a reason
\* other than a constraint (connection lost, ctx cancelled).  A conflict on
\* the arbiter constraint skips the row; a conflict on the primary key alone
\* is an error.
InsertRideEvent(rows, e, dbUp) ==
  IF ~dbUp
  THEN [store |-> rows, err |-> ExecError]
  ELSE IF SamePair(rows, Row(e)) # {}
       THEN [store |-> rows, err |-> Nil]
       ELSE IF \E x \in rows : x.id = e.ID
            THEN [store |-> rows, err |-> UniqueViolation]
            ELSE [store |-> rows \cup {Row(e)}, err |-> Nil]

(***************************************************************************)
(* SpecConsumer: src/consumer/main.go:63-86                                *)
(***************************************************************************)
\* Events on the stream: three of trip 1, one of which repeats the pair
\* (trip 1, REQUESTED) under another event ID, and one of trip 2.
StreamEvents ==
  { [ID |-> "e1", TripID |-> 1, Type |-> EventRideRequested,
     State |-> StateRequested, Payload |-> RideRequestedPayload],
    [ID |-> "e2", TripID |-> 1, Type |-> EventTripCancelled,
     State |-> StateCancelled, Payload |-> RideCancelledPayload],
    [ID |-> "e3", TripID |-> 1, Type |-> EventRideRequested,
     State |-> StateRequested, Payload |-> RideRequestedPayload],
    [ID |-> "e4", TripID |-> 2, Type |-> EventRideRequested,
     State |-> StateRequested, Payload |-> RideRequestedPayload] }

\* Values ReadMessage can deliver, any number of times each (the transport
\* is at-least-once): the events of the stream and bytes that are not JSON.
StreamValues == { MarshalJSON(e) : e \in StreamEvents } \cup { NotJSON }

ReadError == "read error"

\* The loop goes on after an error (`continue`, or falling out of the else).
NextConsumerPc_Fatal(err) == IF err = Nil THEN "loop" ELSE "exited"

\* Where the consumer is after an iteration that ended with err: every
\* branch of the loop body logs and goes back to the select.
NextConsumerPc(err) == "loop"

\* One iteration of the loop whose select takes the default case:
\* ReadMessage, UnmarshalJSON, InsertRideEvent.  A cancel() that arrives
\* while the iteration runs makes ExecContext fail (dbUp = FALSE) and is
\* seen by the select of the next iteration (ConsumerSignal after Consume).
Consume ==
  /\ consumerPc = "loop"
  /\ ~consumerCancelled
  /\ Len(handled) < MaxReads
  /\ \E readOK \in BOOLEAN, value \in StreamValues, dbUp \in BOOLEAN :
       LET u == UnmarshalJSON(value)
           i == InsertRideEvent(store, u.event, dbUp)
           err == IF ~readOK THEN ReadError
                  ELSE IF u.err # Nil THEN u.err
                  ELSE i.err
       IN /\ store' = IF readOK /\ u.err = Nil THEN i.store ELSE store
          /\ handled' = Append(handled,
                          [read |-> readOK,
                           value |-> IF readOK THEN value ELSE NotJSON,
                           inserting |-> readOK /\ u.err = Nil,
                           dbUp |-> readOK /\ u.err = Nil /\ dbUp,
                           present |-> readOK /\ u.err = Nil
                                       /\ SamePair(store, Row(u.event)) # {},
                           err |-> err])
          /\ consumerPc' = NextConsumerPc(err)
  /\ UNCHANGED << consumerCancelled, driverVars, fsmVars, codecVars >>

\* The goroutine that waits on signalChan calls cancel().
ConsumerSignal ==
  /\ ~consumerCancelled
  /\ consumerCancelled' = TRUE
  /\ UNCHANGED << store, consumerPc, handled, driverVars, fsmVars, codecVars >>

\* case <-ctx.Done(): return
ConsumerExit ==
  /\ consumerPc = "loop"
  /\ consumerCancelled
  /\ consumerPc' = "exited"
  /\ UNCHANGED << store, consumerCancelled, handled,
                  driverVars, fsmVars, codecVars >>

NextConsumer == Consume \/ ConsumerSignal \/ ConsumerExit

SpecConsumer == Init /\ [][NextConsumer]_vars

(***************************************************************************)
(* Properties of FSM.Apply, checked under SpecFSM                          *)
(***************************************************************************)
\* The transition table as the specification lists it: (state, event, next).
TransitionTable ==
  { << StateRequested,  EventRideAccepted,  StateAccepted >>,
    << StateRequested,  EventTripCancelled, StateCancelled >>,
    << StateAccepted,   EventTripStarted,   StateInProgress >>,
    << StateAccepted,   EventTripCancelled, StateCancelled >>,
    << StateInProgress, EventTripCompleted, StateCompleted >>,
    << StateInProgress, EventTripCancelled, StateCancelled >> }

InTable(s, e) == \E n \in RideStates : << s, e, n >> \in TransitionTable

TableStates == { tr[1] : tr \in TransitionTable }

TerminalStates == { StateCompleted, StateCancelled }

\* C1: for every state S and event type E, Apply(E) from S succeeds iff
\* (S, E) is one of the six entries of the transition table, and on success
\* the new state is the table's next state for (S, E).
C1_ApplyMatchesTable ==
  \A i \in DOMAIN fsmTrace :
    LET c == fsmTrace[i] IN
    /\ (c.err = Nil) <=> InTable(c.from, c.event)
    /\ (c.err = Nil) => << c.from, c.event, c.to >> \in TransitionTable

\* Requested -> Accepted -> InProgress -> Completed by three successful calls.
C1_Witness ==
  /\ Len(fsmTrace) = 3
  /\ \A i \in 1..3 : fsmTrace[i].err = Nil
  /\ fsmTrace[1].from = StateRequested
  /\ fsm.State = StateCompleted

\* C2 as stated: in a terminal state, Apply of any event type fails with
\* InvalidTransitionError and the state stays the same terminal state.
C2_TerminalApplyIsInvalidTransition ==
  \A i \in DOMAIN fsmTrace :
    LET c == fsmTrace[i] IN
    c.from \in TerminalStates =>
      c.err = InvalidTransitionError /\ c.to = c.from

\* C2 as amended: in a terminal state, Apply of any event type fails with
\* UndefinedStateError (the terminal states have no row in the table) and
\* the state stays the same terminal state.
C2_TerminalApplyIsUndefinedState ==
  \A i \in DOMAIN fsmTrace :
    LET c == fsmTrace[i] IN
    c.from \in TerminalStates =>
      c.err = UndefinedStateError /\ c.to = c.from

\* Accepted, TripCancelled, then one more Apply on the Cancelled FSM.
C2_Witness ==
  /\ Len(fsmTrace) >= 2
  /\ fsmTrace[1].from = StateAccepted
  /\ fsmTrace[1].event = EventTripCancelled
  /\ fsmTrace[1].to = StateCancelled
  /\ fsmTrace[2].from = StateCancelled
  /\ fsmTrace[2].err # Nil

\* C3: whenever Apply fails the state is left unchanged; the failure is
\* UndefinedStateError exactly when the current state has no row in the
\* table, and InvalidTransitionError exactly when it has a row that has no
\* entry for the event.
C3_FailureKindAndNoChange ==
  \A i \in DOMAIN fsmTrace :
    LET c == fsmTrace[i] IN
    /\ c.err # Nil => c.to = c.from
    /\ c.err = UndefinedStateError <=> c.from \notin TableStates
    /\ c.err = InvalidTransitionError <=>
         (c.from \in TableStates /\ ~InTable(c.from, c.event))

\* One run in which both kinds of failure happened.
C3_Witness ==
  /\ \E i \in DOMAIN fsmTrace : fsmTrace[i].err = InvalidTransitionError
  /\ \E i \in DOMAIN fsmTrace : fsmTrace[i].err = UndefinedStateError


\* Calls of the trace that succeeded.
Succeeded == { i \in DOMAIN fsmTrace : fsmTrace[i].err = Nil }

\* Apply(e) succeeds from state s.
Leaves(s, e) == Apply([State |-> s], e).err = Nil

\* States of the transition graph: Requested and every state that some
\* successful Apply leaves or enters.
GraphStates ==
  {StateRequested}
  \cup { s \in RideStates : \E e \in RideEventTypes : Leaves(s, e) }
  \cup { t \in RideStates :
           \E s \in RideStates, e \in RideEventTypes :
             Leaves(s, e) /\ Apply([State |-> s], e).FSM.State = t }

\* States of the graph that no Apply leaves.
Sinks == { s \in GraphStates : \A e \in RideEventTypes : ~Leaves(s, e) }

\* C20: the successful Apply calls on one FSM never enter a state the FSM has
\* been in before, the sinks of the transition graph are exactly Completed
\* and Cancelled, and an FSM that starts in Requested makes at most three
\* successful transitions.
C20_NoStateRevisited ==
  /\ \A i, j \in Succeeded : i <= j => fsmTrace[j].to # fsmTrace[i].from
  /\ Sinks = {StateCompleted, StateCancelled}
  /\ (fsmTrace # << >> /\ fsmTrace[1].from = StateRequested) =>
       Cardinality(Succeeded) <= 3

\* C20 witness: Requested -> Accepted -> InProgress -> Completed, and a
\* fourth Apply that fails.
C20_Witness ==
  /\ Len(fsmTrace) = 4
  /\ fsmTrace[1].from = StateRequested
  /\ Succeeded = {1, 2, 3}
  /\ fsmTrace[3].to = StateCompleted
  /\ fsmTrace[4].err # Nil

\* No Apply succeeds from the state of f.
NoApplySucceeds(f) == \A e \in RideEventTypes : Apply(f, e).err # Nil

\* C22 as stated: IsTerminal is true exactly for Completed and Cancelled, and
\* exactly for the states from which no Apply succeeds.
C22_TerminalIffNoApply ==
  /\ IsTerminal(fsm) <=> fsm.State \in {StateCompleted, StateCancelled}
  /\ IsTerminal(fsm) <=> NoApplySucceeds(fsm)

\* C22 amended: IsTerminal is true exactly for Completed and Cancelled; among
\* the five states other than New these are exactly the states from which no
\* Apply succeeds; from New no Apply succeeds either, yet IsTerminal is false.
C22_TerminalIffNoApplyExceptNew ==
  /\ IsTerminal(fsm) <=> fsm.State \in {StateCompleted, StateCancelled}
  /\ fsm.State # StateNew => (IsTerminal(fsm) <=> NoApplySucceeds(fsm))
  /\ fsm.State = StateNew => (~IsTerminal(fsm) /\ NoApplySucceeds(fsm))
  /\ \A i \in DOMAIN fsmTrace :
       IsTerminal([State |-> fsmTrace[i].from]) => fsmTrace[i].err # Nil

\* C22 witness: an FSM went from InProgress to Completed and a further Apply
\* failed there.
C22_Witness ==
  /\ Len(fsmTrace) = 2
  /\ fsmTrace[1].from = StateInProgress
  /\ fsmTrace[1].to = StateCompleted
  /\ fsmTrace[2].err # Nil
  /\ IsTerminal(fsm)

\* C23: IsCancelable is true exactly for Requested and Accepted; whenever it
\* is true Apply(TripCancelled) succeeds and leads to Cancelled; for
\* InProgress it is false although Apply(TripCancelled) succeeds there too.
C23_CancelableIffRequestedOrAccepted ==
  /\ IsCancelable(fsm) <=> fsm.State \in {StateRequested, StateAccepted}
  /\ IsCancelable(fsm) =>
       /\ Apply(fsm, EventTripCancelled).err = Nil
       /\ Apply(fsm, EventTripCancelled).FSM.State = StateCancelled
  /\ fsm.State = StateInProgress =>
       /\ ~IsCancelable(fsm)
       /\ Apply(fsm, EventTripCancelled).err = Nil
  /\ \A i \in DOMAIN fsmTrace :
       (IsCancelable([State |-> fsmTrace[i].from])
          /\ fsmTrace[i].event = EventTripCancelled) => fsmTrace[i].err = Nil

\* C23 witness: an FSM was started from Accepted, where IsCancelable is true,
\* then cancelled from InProgress, where it is false.
C23_Witness ==
  /\ Len(fsmTrace) = 2
  /\ fsmTrace[1].from = StateAccepted /\ fsmTrace[1].to = StateInProgress
  /\ IsCancelable([State |-> fsmTrace[1].from])
  /\ ~IsCancelable([State |-> fsmTrace[2].from])
  /\ fsmTrace[2].event = EventTripCancelled /\ fsmTrace[2].err = Nil

(***************************************************************************)
(* Properties of the driver loop, checked under Spec                       *)
(***************************************************************************)
\* The event carried by the i-th message handed to the transport.
Event(i) == produced[i].Value

\* Indices of the messages that carry an event of trip t.
MessagesOf(t) == { i \in DOMAIN produced : Event(i).TripID = t }

\* Indices of the RideRequested messages of trip t.
SeedsOf(t) == { i \in MessagesOf(t) : Event(i).Type = EventRideRequested }

\* Trip identifiers drawn so far: one per ride inserted into activeRides.
Admitted == 1..uuids

\* This step hands one more message to the transport.
Publishes == Len(produced') = Len(produced) + 1

\* The event of the message this step hands to the transport.
NewEvent == produced'[Len(produced')].Value

\* C4: every published event other than the seed carries an (event type,
\* resulting state) pair that is an (event, next state) result of the
\* transition table, and its resulting state is the FSM state of the ride
\* right after the Apply that produced it; the seed event carries exactly
\* (RideRequested, Requested).
C4_PublishedPairsFromTable ==
  /\ \A i \in DOMAIN produced :
       IF Event(i).Type = EventRideRequested
       THEN Event(i).State = StateRequested
       ELSE \E tr \in TransitionTable :
              tr[2] = Event(i).Type /\ tr[3] = Event(i).State
  /\ lastVisit.published =>
       /\ lastVisit.event.State = lastVisit.after
       /\ << lastVisit.before, lastVisit.event.Type, lastVisit.after >>
            \in TransitionTable

\* A seed, a completion and a cancellation have all been published.
C4_Witness ==
  /\ \E i \in DOMAIN produced : Event(i).Type = EventRideRequested
  /\ \E i \in DOMAIN produced : Event(i).Type = EventTripCompleted
  /\ \E i \in DOMAIN produced : Event(i).Type = EventTripCancelled

\* C5: at the end of every tick (main is back at the select, or has left the
\* loop) the working set contains no ride whose state is Completed or
\* Cancelled, also after ticks in which serializing an event failed.
C5_NoTerminalRideAfterTick ==
  pc # "range" =>
    \A t \in DOMAIN activeRides : ~IsTerminal(activeRides[t].FSM)

\* C6: a marshal failure does not abort the tick: whenever a tick is over,
\* every ride that was in the working set after its admission step, other
\* than the ride admitted by that tick (whose seed event may be the one
\* skipped), has been visited by the advancement step of that tick.
C6_MarshalFailureKeepsTick ==
  pc = "select" => \A t \in tickRides \ {NewTripID(uuids)} : visits[t] >= 1

\* C7 as stated: every ride inserted into the working set starts in state
\* Requested and has its seed event published exactly once; the seed is the
\* first published event of its trip.
C7_SeedExactlyOnceAndFirst ==
  \A t \in Admitted :
    /\ Cardinality(SeedsOf(t)) = 1
    /\ \A i \in SeedsOf(t) : \A j \in MessagesOf(t) : i <= j

\* C7 as amended: every ride inserted into the working set starts in state
\* Requested; its seed event is published at most once, by the admission
\* step, and exactly once when serializing it succeeds (a tick whose
\* admission goes on to the range has published the seed); a published seed
\* precedes every other event of its trip; the advancement step produces no
\* RideRequested event.
C7_SeedAtMostOnceAndFirst ==
  /\ [](\A t \in Admitted :
          /\ Cardinality(SeedsOf(t)) <= 1
          /\ \A i \in SeedsOf(t) : \A j \in MessagesOf(t) : i <= j)
  /\ [](lastVisit.event.Type # EventRideRequested)
  /\ [][ /\ \A t \in DOMAIN activeRides' \ DOMAIN activeRides :
              activeRides'[t].FSM.State = StateRequested
         /\ (Publishes /\ NewEvent.Type = EventRideRequested)
              => /\ ticks' = ticks + 1
                 /\ NewEvent.TripID
                      \in DOMAIN activeRides' \ DOMAIN activeRides
         /\ (uuids' # uuids /\ pc' = "range")
              => /\ Publishes
                 /\ NewEvent.Type = EventRideRequested
                 /\ NewEvent.TripID = uuids' ]_vars

\* A trip published its seed and later events, another was admitted with a
\* failed seed and still published a later event.
C7_Witness ==
  /\ \E t \in Admitted : SeedsOf(t) # {} /\ Cardinality(MessagesOf(t)) >= 3
  /\ \E t \in Admitted : SeedsOf(t) = {} /\ MessagesOf(t) # {}

\* C8: during the advancement step of a tick no ride is visited twice, and
\* when the step ends every ride that was in the working set after admission
\* has been visited exactly once, although rides are deleted during the
\* iteration.
C8_VisitedExactlyOnce ==
  /\ [](\A t \in DOMAIN visits : visits[t] <= 1)
  /\ [][ (pc = "range" /\ pc' = "select")
           => \A t \in tickRides : visits[t] = 1 ]_vars

\* An advancement step over three rides has ended, one of them deleted in it.
C8_Witness ==
  /\ pc = "select"
  /\ Cardinality(tickRides) = 3
  /\ \A t \in tickRides : visits[t] = 1
  /\ tickRides \ DOMAIN activeRides # {}

\* C9: a ride removed from the working set never re-enters it, is never
\* visited again, and no further event with its trip identifier is published.
C9_RemovedStaysRemoved ==
  /\ [](retired \cap DOMAIN activeRides = {})
  /\ [][ /\ \A t \in visited' \ visited : t \notin retired
         /\ Publishes => NewEvent.TripID \notin retired
         /\ \A t \in retired : t \notin DOMAIN activeRides' ]_vars

\* A ride was removed and two more ticks with their admissions have run.
C9_Witness ==
  /\ 1 \in retired
  /\ ticks = 3
  /\ pc = "select"
  /\ Cardinality(DOMAIN activeRides) >= 1

\* C10: no message whose event has an empty event type or an empty trip
\* identifier is handed to the transport; a visit that yields no event
\* publishes nothing for that ride.
C10_NoEmptyEventPublished ==
  /\ \A i \in DOMAIN produced :
       /\ Event(i).Type # NoType
       /\ Event(i).TripID # NoTrip
       /\ produced[i].Key # NoTrip
  /\ (lastVisit.event.Type = NoType \/ lastVisit.event.TripID = NoTrip)
       => ~lastVisit.published

\* A ride left in the working set in a terminal state was visited: the visit
\* yielded no event, no error, and published nothing.
C10_Witness ==
  /\ lastVisit.TripID # NoTrip
  /\ lastVisit.before \in TerminalStates
  /\ lastVisit.event = EmptyEvent
  /\ lastVisit.err = Nil
  /\ ~lastVisit.published


\* C13: the randomized cancellation applies TripCancelled only to rides in
\* state Requested or Accepted: no visit of a ride that is InProgress yields
\* TripCancelled, and no trip has a TripCancelled event published after its
\* TripStarted event.
C13_NoCancellationInProgress ==
  /\ lastVisit.event.Type = EventTripCancelled
       => lastVisit.before \in { StateRequested, StateAccepted }
  /\ \A i \in DOMAIN produced : \A j \in DOMAIN produced :
       ( /\ i < j
         /\ Event(i).TripID = Event(j).TripID
         /\ Event(i).Type = EventTripStarted )
       => Event(j).Type # EventTripCancelled

\* The roll hit for a ride that was InProgress and the visit completed the
\* trip, while another trip was cancelled.
C13_Witness ==
  /\ lastVisit.roll
  /\ lastVisit.before = StateInProgress
  /\ lastVisit.event.Type = EventTripCompleted
  /\ lastVisit.published
  /\ \E i \in DOMAIN produced : Event(i).Type = EventTripCancelled

\* C14: when the cancellation roll hits for a cancelable ride, the visit
\* yields exactly the event TripCancelled with state Cancelled and a
\* cancellation payload, and the normal next step is skipped; one visit
\* changes the FSM state of the ride by at most one transition of the table,
\* and one step hands at most one message to the transport.
C14_OneEventPerVisit ==
  /\ []( (lastVisit.roll /\ lastVisit.before \in {StateRequested, StateAccepted})
           => /\ lastVisit.event.Type = EventTripCancelled
              /\ lastVisit.event.State = StateCancelled
              /\ lastVisit.event.Payload = RideCancelledPayload
              /\ lastVisit.event.TripID = lastVisit.TripID
              /\ lastVisit.after = StateCancelled )
  /\ []( \/ lastVisit.after = lastVisit.before /\ lastVisit.event = EmptyEvent
         \/ << lastVisit.before, lastVisit.event.Type, lastVisit.after >>
              \in TransitionTable )
  /\ [][ /\ Len(produced') <= Len(produced) + 1
         /\ \A i \in DOMAIN produced : produced'[i] = produced[i] ]_vars

\* The roll hit for a ride in state Accepted and its TripCancelled event
\* was published.
C14_Witness ==
  /\ lastVisit.roll
  /\ lastVisit.before = StateAccepted
  /\ lastVisit.event.Type = EventTripCancelled
  /\ lastVisit.published
  /\ produced[Len(produced)].Value = lastVisit.event

(***************************************************************************)
(* Properties of admission at capacity, checked under SpecCapacity         *)
(***************************************************************************)
\* C11: admission adds at most one ride per tick and only when the working
\* set holds fewer than 100 rides, so the working set always holds at most
\* 100 rides, each under its own trip identifier.
C11_AtMostCapacityRides ==
  /\ [](Cardinality(DOMAIN activeRides) <= 100)
  /\ [](\A k \in DOMAIN activeRides : activeRides[k].TripID = k)
  /\ [][ LET added == DOMAIN activeRides' \ DOMAIN activeRides IN
         /\ Cardinality(added) <= 1
         /\ added # {} => /\ ticks' = ticks + 1
                          /\ Cardinality(DOMAIN activeRides) < 100 ]_vars

\* Three ticks have run but the 100 rides of the working set were reached
\* with fewer admissions: a tick found the working set full and admitted none.
C11_Witness ==
  /\ Cardinality(DOMAIN activeRides) = 100
  /\ uuids = 100
  /\ ticks = 3
  /\ pc = "range"
  /\ \E k \in DOMAIN activeRides : ~IsTerminal(activeRides[k].FSM)

\* C17: when the loop has exited on the shutdown signal, the last tick that
\* started has advanced every ride that was in the working set before it.
C17_StartedTickCompletesBeforeExit ==
  pc \in {"exited", "flushed"} =>
    \A t \in tickRides \ {NewTripID(uuids)} : visits[t] >= 1

\* The messages handed to the transport so far are all on ride-events and
\* keyed by the trip of their event, and no event is in two of them.
KeyedOncePerEvent(msgs) ==
  /\ \A i \in DOMAIN msgs :
       /\ msgs[i].Topic = "ride-events"
       /\ msgs[i].Key = msgs[i].Value.TripID
  /\ \A i, j \in DOMAIN msgs : msgs[i].Value = msgs[j].Value => i = j

VariantFor ==
  (EventRideRequested :> "RideRequestedPayload")
  @@ (EventRideAccepted :> "RideAcceptedPayload")
  @@ (EventTripStarted :> "RideStartedPayload")
  @@ (EventTripCompleted :> "RideCompletedPayload")
  @@ (EventTripCancelled :> "RideCancelledPayload")

\* C19: every published event has one of the five event types and carries
\* the payload variant of that type; none has a nil payload.
C19_PayloadVariantMatchesType ==
  \A i \in DOMAIN produced :
    /\ Event(i).Type \in DOMAIN VariantFor
    /\ Event(i).Payload # NilPayload
    /\ Event(i).Payload.variant = VariantFor[Event(i).Type]

\* C19 witness: events of all five types have been published.
C19_Witness ==
  \A type \in RideEventTypes : \E i \in DOMAIN produced : Event(i).Type = type

\* The fixed progression: state before, event, state after.
Progression ==
  { << StateRequested,  EventRideAccepted,  StateAccepted >>,
    << StateAccepted,   EventTripStarted,   StateInProgress >>,
    << StateInProgress, EventTripCompleted, StateCompleted >> }

\* Position of a state, and of the event that enters it, in the progression.
Rank ==
  (StateRequested :> 0) @@ (StateAccepted :> 1) @@ (StateInProgress :> 2)
  @@ (StateCompleted :> 3)

RankOfEvent ==
  (EventRideRequested :> 0) @@ (EventRideAccepted :> 1)
  @@ (EventTripStarted :> 2) @@ (EventTripCompleted :> 3)

\* Indices of the messages of trip t that carry a progression event other
\* than the seed.
StepsPublished(t) ==
  { i \in MessagesOf(t) :
      Event(i).Type \in {EventRideAccepted, EventTripStarted, EventTripCompleted} }

\* The last visit was hit by the cancellation roll.
RollHit == lastVisit.roll /\ lastVisit.before \in {StateRequested, StateAccepted}

\* C21 as stated: a ride that was not cancelled has published one event for
\* each step of the progression it has made.
C21_EveryStepPublished ==
  \A t \in DOMAIN activeRides :
    activeRides[t].FSM.State # StateCancelled =>
      Cardinality(StepsPublished(t)) = Rank[activeRides[t].FSM.State]

\* C21 amended: a visit that the cancellation roll does not hit moves a
\* non-terminal ride by exactly one step of the progression without error;
\* the progression events published for a trip are in the order RideAccepted,
\* TripStarted, TripCompleted, each at most once and none for a step the ride
\* has not made (an event whose serialization fails is not published); a
\* visit that publishes TripCompleted leaves the FSM terminal and removes the
\* ride, and no trip whose TripCompleted was published is in the working set.
C21_ProgressionInOrder ==
  /\ (lastVisit.TripID # NoTrip /\ ~RollHit) =>
       /\ lastVisit.err = Nil
       /\ \/ << lastVisit.before, lastVisit.event.Type, lastVisit.after >>
               \in Progression
          \/ /\ lastVisit.before \in TerminalStates
             /\ lastVisit.after = lastVisit.before
             /\ lastVisit.event = EmptyEvent
  /\ (lastVisit.published /\ lastVisit.event.Type = EventTripCompleted) =>
       /\ IsTerminal([State |-> lastVisit.after])
       /\ lastVisit.deleted
  /\ \A t \in Admitted :
       /\ \A i, j \in StepsPublished(t) :
            i < j => RankOfEvent[Event(i).Type] < RankOfEvent[Event(j).Type]
       /\ \A i \in StepsPublished(t) :
            t \in DOMAIN activeRides =>
              /\ activeRides[t].FSM.State # StateCancelled
                   => RankOfEvent[Event(i).Type] <= Rank[activeRides[t].FSM.State]
              /\ Event(i).Type # EventTripCompleted

\* C21 witness: trip 1 published RideAccepted, TripStarted and TripCompleted
\* in three visits and has left the working set.
C21_Witness ==
  /\ \E i, j, k \in StepsPublished(1) :
       /\ i < j /\ j < k
       /\ Event(i).Type = EventRideAccepted
       /\ Event(j).Type = EventTripStarted
       /\ Event(k).Type = EventTripCompleted
  /\ 1 \in retired
  /\ 1 \notin DOMAIN activeRides

(***************************************************************************)
(* SpecCodec: json.Marshal of a RideEvent followed by UnmarshalJSON, and   *)
(* UnmarshalJSON of envelopes written by others                            *)
(* (src/events/types_test.go:29-124, src/consumer/main.go:71-72)           *)
(***************************************************************************)
\* Times in payloads: the zero time, and an instant with and without the
\* monotonic clock reading of time.Now().
Times ==
  { ZeroTime, [instant |-> 1, monotonic |-> FALSE],
    [instant |-> 1, monotonic |-> TRUE] }

\* Payload values of the five variants.
CodecPayloads ==
  { [variant |-> "RideRequestedPayload", Passenger |-> x,
     PickupLocation |-> "A", DropoffLocation |-> "B"] : x \in {"", "rider-1"} }
  \cup { [variant |-> "RideAcceptedPayload", DriverID |-> x] :
           x \in {"", "driver-1"} }
  \cup { [variant |-> "RideStartedPayload", StartTime |-> t] : t \in Times }
  \cup { [variant |-> "RideCompletedPayload", EndTime |-> t,
          DistanceKM |-> d, FareUSD |-> generateFare(d)] :
           t \in Times, d \in Distances }
  \cup { [variant |-> "RideCancelledPayload", CancelledBy |-> x, Reason |-> y] :
           x \in {"passenger", "driver"}, y \in {"", "no_show"} }

\* The event type and the resulting state that go with a payload variant.
TypeOfVariant ==
  ("RideRequestedPayload" :> EventRideRequested)
  @@ ("RideAcceptedPayload" :> EventRideAccepted)
  @@ ("RideStartedPayload" :> EventTripStarted)
  @@ ("RideCompletedPayload" :> EventTripCompleted)
  @@ ("RideCancelledPayload" :> EventTripCancelled)

StateOfVariant ==
  ("RideRequestedPayload" :> StateRequested)
  @@ ("RideAcceptedPayload" :> StateAccepted)
  @@ ("RideStartedPayload" :> StateInProgress)
  @@ ("RideCompletedPayload" :> StateCompleted)
  @@ ("RideCancelledPayload" :> StateCancelled)

\* Events given to json.Marshal: of each of the five types with a payload of
\* its variant, as in the cases of TestRideEventJSONMarshalling_AllTypes.
CodecEvents ==
  { [ID |-> "id1", TripID |-> t, Type |-> TypeOfVariant[p.variant],
     State |-> StateOfVariant[p.variant], Payload |-> p] :
      t \in {1, 2}, p \in CodecPayloads }

UnknownType == "UNKNOWN"

\* Payload members of envelopes written by others: one object per variant
\* and the JSON null.
ForeignPayloads ==
  { MarshalPayload(p) :
      p \in { q \in CodecPayloads :
                /\ "StartTime" \in DOMAIN q => q.StartTime = ZeroTime
                /\ "EndTime" \in DOMAIN q =>
                     q.EndTime = ZeroTime /\ q.DistanceKM = MinDistance
                /\ "Passenger" \in DOMAIN q => q.Passenger # ""
                /\ "DriverID" \in DOMAIN q => q.DriverID # ""
                /\ "Reason" \in DOMAIN q =>
                     q.Reason # "" /\ q.CancelledBy = "driver" } }
  \cup { MarshalPayload(NilPayload) }

\* Envelopes written by others: any of the five types, an unknown type or no
\* type, with any payload object or without one; and bytes that are not JSON.
ForeignValues ==
  { [json |-> TRUE,
     obj |-> [id |-> "id9", trip_id |-> 1, type |-> ty,
              state |-> StateRequested]] :
      ty \in RideEventTypes \cup {UnknownType, NoType} }
  \cup { [json |-> TRUE,
          obj |-> [id |-> "id9", trip_id |-> 1, type |-> ty,
                   state |-> StateRequested, payload |-> pl]] :
           ty \in RideEventTypes \cup {UnknownType, NoType},
           pl \in ForeignPayloads }
  \cup { NotJSON }

InitCodecSpec ==
  /\ fsm = [State |-> StateRequested]
  /\ fsmTrace = << >>
  /\ InitDriver
  /\ InitConsumer
  /\ original \in CodecEvents
  /\ wire = NotJSON
  /\ decoded = [event |-> ZeroRideEvent, err |-> Nil]
  /\ codecPc = "event"

\* data, err := json.Marshal(tc.event)
Serialize ==
  /\ codecPc = "event"
  /\ wire' = MarshalJSON(original)
  /\ codecPc' = "marshalled"
  /\ UNCHANGED << original, decoded, driverVars, fsmVars, consumerVars >>

\* msg.Value holds an envelope that this package did not write.
Receive ==
  /\ codecPc = "event"
  /\ wire' \in ForeignValues
  /\ codecPc' = "received"
  /\ UNCHANGED << original, decoded, driverVars, fsmVars, consumerVars >>

\* var event RideEvent; err := event.UnmarshalJSON(data)
Deserialize ==
  /\ codecPc \in {"marshalled", "received"}
  /\ decoded' = UnmarshalJSON(wire)
  /\ codecPc' = IF codecPc = "marshalled" THEN "roundtrip" ELSE "decoded"
  /\ UNCHANGED << original, wire, driverVars, fsmVars, consumerVars >>

NextCodec == Serialize \/ Receive \/ Deserialize

SpecCodec == InitCodecSpec /\ [][NextCodec]_vars

(***************************************************************************)
(* Properties of the event envelope, checked under SpecCodec               *)
(***************************************************************************)
\* The fields of payloads a and b of one variant are equal, times as
\* instants (Time.Equal).
PayloadFieldsEqual(a, b) ==
  /\ a.variant = b.variant
  /\ DOMAIN a = DOMAIN b
  /\ \A f \in DOMAIN a :
       IF f \in {"StartTime", "EndTime"}
       THEN TimeEqual(a[f], b[f])
       ELSE a[f] = b[f]

\* C24 as stated, with equality of the values themselves: the event decoded
\* from a serialized event has its type and a payload equal to its payload.
C24_RoundTripIdentical ==
  codecPc = "roundtrip" =>
    /\ decoded.err = Nil
    /\ decoded.event.Type = original.Type
    /\ decoded.event.Payload = original.Payload

\* C24 amended: the event decoded from a serialized event of any of the five
\* types has the same type and a payload of the variant of that type whose
\* fields are equal to the original's, time fields as instants: the
\* monotonic clock reading of a time taken from time.Now() is not carried.
C24_RoundTripEqualFields ==
  codecPc = "roundtrip" =>
    /\ decoded.err = Nil
    /\ decoded.event.Type = original.Type
    /\ decoded.event.Payload.variant = VariantFor[original.Type]
    /\ PayloadFieldsEqual(decoded.event.Payload, original.Payload)
    /\ decoded.event.ID = original.ID
    /\ decoded.event.TripID = original.TripID
    /\ decoded.event.State = original.State

\* C24 witness: a TripCompleted event whose EndTime came from time.Now() was
\* serialized and decoded.
C24_Witness ==
  /\ codecPc = "roundtrip"
  /\ original.Type = EventTripCompleted
  /\ original.Payload.EndTime.monotonic
  /\ original.Payload.DistanceKM = MaxDistance
  /\ decoded.event.Payload.FareUSD = original.Payload.FareUSD

\* C25: the variant of a decoded payload is the one of the envelope's type,
\* whatever object the payload member holds; an envelope of one of the five
\* types with a payload member decodes without error; an envelope of any
\* other type decodes without error to its type and a nil payload.
C25_VariantByTypeUnknownIsNil ==
  (codecPc \in {"roundtrip", "decoded"} /\ wire.json) =>
    LET ty == wire.obj.type IN
    /\ ty \in RideEventTypes =>
         /\ "payload" \in DOMAIN wire.obj => decoded.err = Nil
         /\ decoded.err = Nil =>
              decoded.event.Payload.variant = VariantFor[ty]
    /\ ty \notin RideEventTypes =>
         /\ decoded.err = Nil
         /\ decoded.event.Type = ty
         /\ decoded.event.Payload = NilPayload

\* C25 witness: an envelope of an unknown type that carries the payload
\* object of a cancellation was decoded.
C25_Witness ==
  /\ codecPc = "decoded"
  /\ wire.json
  /\ wire.obj.type = UnknownType
  /\ "payload" \in DOMAIN wire.obj
  /\ "cancelled_by" \in DOMAIN wire.obj.payload
  /\ decoded.err = Nil
  /\ decoded.event.Payload = NilPayload

(***************************************************************************)
(* Properties of fares, faults, keys and the size of the working set,      *)
(* checked under Spec                                                      *)
(***************************************************************************)
\* C26: in cents and hundredths of a km, the fare of 10.00 km is 12.50 and
\* the fare of 0.00 km is 2.50; every published TripCompleted event has a
\* distance in [2.00, 25.00] and a fare of 2.50 plus 1.00 per km, which lies
\* in [4.50, 27.50].
C26_FareIsBasePlusDistance ==
  /\ generateFare(1000) = 1250
  /\ generateFare(0) = 250
  /\ \A i \in DOMAIN produced :
       Event(i).Type = EventTripCompleted =>
         LET p == Event(i).Payload IN
         /\ p.DistanceKM >= 200 /\ p.DistanceKM <= 2500
         /\ p.FareUSD = 250 + p.DistanceKM
         /\ p.FareUSD >= 450 /\ p.FareUSD <= 2750

\* C26 witness: a TripCompleted event with the longest distance, 25.00 km,
\* and the fare 27.50 has been published.
C26_Witness ==
  \E i \in DOMAIN produced :
    /\ Event(i).Type = EventTripCompleted
    /\ Event(i).Payload.DistanceKM = 2500
    /\ Event(i).Payload.FareUSD = 2750

\* C27: getNextEvent returns no error for any ride of the working set,
\* whatever the cancellation roll: no visit has ended with an error, so no
\* ride was removed as faulted.
C27_ApplyNeverFailsInDriver ==
  /\ lastVisit.err = Nil
  /\ \A t \in DOMAIN activeRides :
       \A roll \in BOOLEAN, distance \in Distances :
         getNextEvent(activeRides[t], roll, distance).err = Nil
  /\ \A t \in retired :
       \E i \in MessagesOf(t) :
         Event(i).Type \in {EventTripCompleted, EventTripCancelled}

\* C27 witness: rides in Accepted, in InProgress and in a terminal state are
\* in the working set, and the last visit was hit by the roll.
C27_Witness ==
  /\ lastVisit.roll
  /\ lastVisit.err = Nil
  /\ \E t \in DOMAIN activeRides : activeRides[t].FSM.State = StateAccepted
  /\ \E t \in DOMAIN activeRides : activeRides[t].FSM.State = StateInProgress
  /\ \E t \in DOMAIN activeRides : IsTerminal(activeRides[t].FSM)

\* The published event of message i with the fresh identifier of its event.
EventWithID(msgs, i) ==
  [ID |-> i, TripID |-> msgs[i].Value.TripID, Type |-> msgs[i].Value.Type,
   State |-> msgs[i].Value.State, Payload |-> msgs[i].Value.Payload]

\* The table after the consumer has handled the messages 1 to n of msgs, in
\* this order, starting from the table `rows`.
RECURSIVE Delivered(_, _, _)
Delivered(rows, msgs, n) ==
  IF n = 0
  THEN rows
  ELSE LET u == UnmarshalJSON(MarshalJSON(EventWithID(msgs, n)))
       IN IF u.err # Nil
          THEN Delivered(rows, msgs, n - 1)
          ELSE InsertRideEvent(Delivered(rows, msgs, n - 1), u.event, TRUE).store

\* C28: no two published events have the same trip and event type; so the
\* sink stores one row for each published event, and delivering every
\* message a second time adds and loses no row.  The sink is looked at
\* between ticks, with all events published until then; the signal, the exit
\* and the flush publish nothing.
C28_OneEventPerTripAndType ==
  /\ \A i, j \in DOMAIN produced :
       (Event(i).TripID = Event(j).TripID /\ Event(i).Type = Event(j).Type)
         => i = j
  /\ (pc = "select" /\ ~cancelled) =>
       LET once == Delivered({}, produced, Len(produced))
       IN /\ { r.id : r \in once } = 1..Len(produced)
          /\ Delivered(once, produced, Len(produced)) = once

\* C28 witness: trip 1 published events of four types and trip 2 two of
\* the same types.
C28_Witness ==
  /\ pc = "select"
  /\ ~cancelled
  /\ Cardinality({ Event(i).Type : i \in MessagesOf(1) }) = 4
  /\ Cardinality(MessagesOf(1)) = 4
  /\ Cardinality(MessagesOf(2)) >= 2
  /\ Cardinality(Delivered({}, produced, Len(produced))) >= 6

\* C29: every visit brings its ride nearer to removal: it removes the ride
\* or moves its FSM one state forward, also when serialization fails; so a
\* ride is removed after at most four visits and none stays for ever.
C29_EveryVisitAdvancesOrRemoves ==
  lastVisit.TripID # NoTrip =>
    \/ lastVisit.deleted
    \/ /\ lastVisit.after # lastVisit.before
       /\ ~IsTerminal([State |-> lastVisit.after])

\* C30: as long as no serialization has failed, every tick has admitted one
\* ride, trip T being the ride of tick T; the working set holds at most 3
\* rides and fewer than the capacity, and at most 2 when a tick is over; a
\* ride of tick T that is left when tick T + 1 is over is gone when tick
\* T + 2 is over.
C30_AtMostThreeRides ==
  marshalFailures = 0 =>
    /\ uuids = ticks
    /\ Cardinality(DOMAIN activeRides) <= 3
    /\ HasRoom(activeRides)
    /\ \A t \in DOMAIN activeRides : t + 2 >= ticks
    /\ pc # "range" =>
         /\ Cardinality(DOMAIN activeRides) <= 2
         /\ \A t \in DOMAIN activeRides : t + 1 >= ticks
         /\ \A t \in 1..ticks : t + 2 <= ticks => t \in retired

\* C30 witness: three ticks without a failure are over, the ride of tick 1
\* was removed in tick 3 with TripCompleted, the rides of ticks 2 and 3 are
\* left.
C30_Witness ==
  /\ marshalFailures = 0
  /\ ticks = 3
  /\ pc = "select"
  /\ DOMAIN activeRides = {2, 3}
  /\ lastVisit.deleted
  /\ \E i \in MessagesOf(1) : Event(i).Type = EventTripCompleted

(***************************************************************************)
(* Properties of the sink and of the consumer loop, checked under          *)
(* SpecConsumer                                                            *)
(***************************************************************************)
\* The iteration the step has just handled.
Handled == handled'[Len(handled')]

\* The step is one iteration of the consumer loop.
Handles == Len(handled') = Len(handled) + 1

AtMostOneRowPerPair(rows) ==
  \A x, y \in rows :
    (x.trip_id = y.trip_id /\ x.event_type = y.event_type) => x = y

\* C15: after every insert call the store holds at most one row per
\* (trip_id, event_type), and an insert the database executes for a pair that
\* is already present leaves the store unchanged and returns no error.
C15_SinkIdempotentOnPair ==
  [][Handles =>
       /\ AtMostOneRowPerPair(store')
       /\ (Handled.inserting /\ Handled.dbUp /\ Handled.present) =>
            (store' = store /\ Handled.err = Nil)]_vars

\* C15 witness: the pair (trip 1, REQUESTED) was stored from event e1, then
\* delivered again as the same event and as event e3, both without error.
C15_Witness ==
  /\ Len(handled) = 3
  /\ \A i \in 1..3 : handled[i].inserting /\ handled[i].err = Nil
  /\ handled[1].value.obj.id = "e1" /\ ~handled[1].present
  /\ handled[2].value.obj.id = "e1" /\ handled[2].present
  /\ handled[3].value.obj.id = "e3" /\ handled[3].present
  /\ Cardinality(store) = 1

\* C16: an iteration that ends with a read, deserialization or insert error
\* leaves the store as it was and the loop running; the loop is left only
\* when the context has been cancelled.
C16_ErrorsDropMessageLoopGoesOn ==
  [][/\ Handles =>
          /\ consumerPc' = "loop"
          /\ Handled.err # Nil => store' = store
     /\ consumerPc' = "exited" => consumerCancelled]_vars

\* C16 witness: a read error, a deserialization error and an insert error
\* were each survived, and the loop has exited after the signal.
C16_Witness ==
  /\ consumerPc = "exited"
  /\ consumerCancelled
  /\ \E i, j, k \in 1..Len(handled) :
       /\ ~handled[i].read /\ handled[i].err = ReadError
       /\ handled[j].read /\ ~handled[j].inserting /\ handled[j].err = JSONError
       /\ handled[k].inserting /\ handled[k].err = ExecError

====
